---- MODULE Spec2Model ----
(***************************************************************************)
(* A model of dev-cleanup's scan pipeline: the repository locator          *)
(* (utils/git.py), the artifact locator and the size probe                 *)
(* (utils/filesystem.py), the scan orchestrator (scanner.py), and the      *)
(* nuke command of the command line (cli.py).                              *)
(*                                                                         *)
(* A path is a sequence of names below the filesystem root <<>>.  The      *)
(* filesystem is the set of directories, the set of regular files, and the *)
(* set of directories the process has no permission on.                    *)
(***************************************************************************)
EXTENDS Integers, Sequences, FiniteSets, TLC

VARIABLES
    dirs,             \* the directories of the filesystem (<<>> always exists)
    files,            \* the regular files of the filesystem
    denied,           \* directories that can be neither listed nor searched
    order,            \* the order in which os.scandir yields names
    stat_propagates,  \* whether Path.is_dir() re-raises a PermissionError
    loc_root,         \* find_git_repos: its argument
    loc_pc,           \* find_git_repos: "call", "returned" or "raised"
    loc_repos,        \* find_git_repos: the list it returned
    art_project,      \* find_cleanable_directories: project_path
    art_names,        \* find_cleanable_directories: cleanable_dirs, as iterated
    art_pc,           \* find_cleanable_directories: "call" or "returned"
    art_results,      \* find_cleanable_directories: the list it returned
    clock,            \* the instant datetime.now() returns
    roots,            \* scan_for_stale_projects: roots
    older_than_months,    \* scan argument, None when unset
    younger_than_months,  \* scan argument, None when unset
    cleanable_dirs,   \* scan argument: the set of names, as iterated
    pc,               \* the position of the scan
    now_read,         \* what the calls of datetime.now() at lines 42 and 44 saw
    older_cutoff,     \* local of the scan, None when unset
    younger_cutoff,   \* local of the scan, None when unset
    root_i,           \* index of the root of the outer loop
    repos,            \* find_git_repos(root) of the current root
    repo_i,           \* index of the repository of the inner loop
    commit_info,      \* get_last_commit_info(repo_path) of the current repository
    cleanable,        \* find_cleanable_directories(...) of the current repository
    cleanable_objs,   \* the CleanableDirectory objects built so far
    stale_projects,   \* local of the scan
    total_repos,      \* local of the scan
    filtered_too_recent,
    filtered_too_old,
    filtered_no_commits,
    filtered_no_cleanable,
    exc,              \* the exception that ended the scan, if any
    first_run,        \* what an earlier scan of the same tree computed
    execute,          \* nuke: --execute
    github_given,     \* nuke: --github as given on the command line
    github,           \* nuke: the local github, which line 532 may clear
    selected,         \* nuke: the projects the checkbox prompt returned
    sel_i,            \* nuke: index of the project of the deletion loop
    local_answer,     \* nuke: the answer to "Delete n local projects?"
    github_answer,    \* nuke: the answer to "Also delete ... from GitHub?"
    trashed,          \* the paths trash_directory ran "trash" on, in order
    gh_deleted        \* the remotes "gh repo delete" was run on, in order

fs_vars == <<dirs, files, denied, order, stat_propagates>>
loc_vars == <<loc_root, loc_pc, loc_repos>>
art_vars == <<art_project, art_names, art_pc, art_results>>
scan_args == <<roots, older_than_months, younger_than_months, cleanable_dirs>>
counters ==
    <<total_repos, filtered_too_recent, filtered_too_old, filtered_no_commits,
      filtered_no_cleanable>>
scan_vars ==
    <<clock, scan_args, pc, now_read, older_cutoff, younger_cutoff, root_i,
      repos, repo_i, commit_info, cleanable, cleanable_objs, stale_projects,
      counters, exc>>
nuke_vars ==
    <<execute, github_given, github, selected, sel_i, local_answer,
      github_answer, trashed, gh_deleted>>
ext_vars == <<first_run, nuke_vars>>
vars == <<fs_vars, loc_vars, art_vars, ext_vars, scan_vars, ext_vars>>

----------------------------------------------------------------------------
(* Bounds of the model. *)

\* The number of entries (directories and files) of a locator filesystem.
LocMaxEntries == 4

\* The number of entries of an artifact-locator filesystem.
ArtMaxEntries == 3

\* The number of entries of a filesystem the scan runs on.
ScanMaxEntries == 3

\* The number of roots of a scan.
MaxRoots == 2

\* The largest older_than_months and younger_than_months.
MaxMonths == 1

----------------------------------------------------------------------------
(* Paths. *)

GitName == ".git"

\* The names of the model that begin with '.', for str.startswith(".").
DotNames == {".h", ".git", ".venv"}

StartsWithDot(name) == name \in DotNames

Parent(p) == SubSeq(p, 1, Len(p) - 1)

\* Path.name: the final component, "" for the filesystem root.
BaseName(p) == IF p = <<>> THEN "" ELSE p[Len(p)]

IsPrefix(p, q) == Len(p) <= Len(q) /\ SubSeq(q, 1, Len(p)) = p

IsAncestor(p, q) == Len(p) < Len(q) /\ SubSeq(q, 1, Len(p)) = p

Perms(S) ==
    {s \in [1..Cardinality(S) -> S] :
        \A i, j \in 1..Cardinality(S) : i # j => s[i] # s[j]}

----------------------------------------------------------------------------
(* The filesystems a behaviour may start from: every tree of at most n     *)
(* entries whose directories are named from dnames and whose files are     *)
(* named from fnames.  A .git directory is kept empty.                     *)

EmptyTree == [d |-> {}, f |-> {}]

Extensions(t, dnames, fnames) ==
    LET parents == {<<>>} \cup {p \in t.d : BaseName(p) # GitName}
        free(p) == p \notin t.d /\ p \notin t.f
    IN  {[d |-> t.d \cup {Append(x[1], x[2])}, f |-> t.f] :
            x \in {y \in parents \X dnames : free(Append(y[1], y[2]))}}
        \cup
        {[d |-> t.d, f |-> t.f \cup {Append(x[1], x[2])}] :
            x \in {y \in parents \X fnames : free(Append(y[1], y[2]))}}

RECURSIVE TreesUpTo(_, _, _)
TreesUpTo(n, dnames, fnames) ==
    IF n = 0 THEN {EmptyTree}
    ELSE LET S == TreesUpTo(n - 1, dnames, fnames)
         IN  S \cup UNION {Extensions(t, dnames, fnames) : t \in S}

----------------------------------------------------------------------------
(* pathlib on the filesystem. *)

\* stat(p) fails with EACCES: a directory above p cannot be searched.
StatDenied(p) == \E a \in denied : IsAncestor(a, p)

\* Path.is_dir() ignores ENOENT, ENOTDIR, EBADF and ELOOP only: a
\* PermissionError is re-raised by the interpreters that do so.
IsDirRaises(p) == stat_propagates /\ StatDenied(p)

IsDir(p) == ~StatDenied(p) /\ (p = <<>> \/ p \in dirs)

IsFile(p) == ~StatDenied(p) /\ p \in files

\* Path.exists() follows the same rule as Path.is_dir().
ExistsRaises(p) == stat_propagates /\ StatDenied(p)

PathExists(p) == ~StatDenied(p) /\ (p = <<>> \/ p \in dirs \/ p \in files)

\* Path.iterdir() raises an OSError on a missing, non-directory or
\* unreadable path.
IterdirRaises(p) == p \in denied \/ StatDenied(p) \/ ~(p = <<>> \/ p \in dirs)

\* Path.iterdir(): the entries of p, in the order the OS yields them.
Listing(p) ==
    LET Present(c) == c \in dirs \/ c \in files
    IN  SelectSeq([i \in 1..Len(order) |-> Append(p, order[i])], Present)

----------------------------------------------------------------------------
(* utils/git.py *)

is_git_repo_raises(path) == IsDirRaises(Append(path, GitName))

\* is_git_repo without the is_file() alternative of line 11.
is_git_repo_dir_only(path) == IsDir(Append(path, GitName))

is_git_repo(path) ==
    LET git_path == Append(path, GitName)
    IN  IsDir(git_path) \/ IsFile(git_path)

RECURSIVE scan_directory(_), scan_items(_, _)

\* scan_items with the hidden-directory test of line 111 left out.
scan_items_into_hidden(items, i) ==
    IF i > Len(items) THEN <<>>
    ELSE LET item == items[i] IN
        IF IsDirRaises(item) THEN <<>>
        ELSE IF ~IsDir(item) THEN scan_items(items, i + 1)
        ELSE scan_directory(item) \o scan_items(items, i + 1)

\* scan_directory without the early return of line 106.
scan_directory_no_return(path) ==
    IF is_git_repo_raises(path) THEN <<>>
    ELSE IF IterdirRaises(path) THEN (IF is_git_repo(path) THEN <<path>> ELSE <<>>)
    ELSE (IF is_git_repo(path) THEN <<path>> ELSE <<>>)
         \o scan_items(Listing(path), 1)

\* The loop of scan_directory over path.iterdir(), from its i-th item on.
\* An exception leaves the loop for the handler of the enclosing call, which
\* keeps what was appended before it.
scan_items(items, i) ==
    IF i > Len(items) THEN <<>>
    ELSE LET item == items[i] IN
        IF IsDirRaises(item) THEN <<>>
        ELSE IF ~IsDir(item) THEN scan_items(items, i + 1)
        ELSE IF StartsWithDot(BaseName(item)) THEN
            IF is_git_repo_raises(item) THEN <<>>
            ELSE (IF is_git_repo(item) THEN <<item>> ELSE <<>>)
                 \o scan_items(items, i + 1)
        ELSE scan_directory(item) \o scan_items(items, i + 1)

\* What one call of scan_directory appends to repos.
scan_directory(path) ==
    IF is_git_repo_raises(path) THEN <<>>
    ELSE IF is_git_repo(path) THEN <<path>>
    ELSE IF IterdirRaises(path) THEN <<>>
    ELSE scan_items(Listing(path), 1)

\* find_git_repos tests root.exists() and root.is_dir() outside any handler.
find_git_repos_raises(root) == ExistsRaises(root)

find_git_repos(root) ==
    IF ~PathExists(root) \/ ~IsDir(root) THEN <<>> ELSE scan_directory(root)

----------------------------------------------------------------------------
(* Values of the scan that the other specifications hold still. *)

\* Python's None, for an unset month bound or cutoff.
None == -1

NoExc == [type |-> "", where |-> ""]

\* get_last_commit_info's return value None.
NoCommitInfo == [kind |-> "None", date |-> 0, message |-> ""]

\* The locals of scan_for_stale_projects as lines 45-53 set them.
ScanLocalsInit ==
    /\ now_read = <<>>
    /\ older_cutoff = None
    /\ younger_cutoff = None
    /\ root_i = 1
    /\ repos = <<>>
    /\ repo_i = 1
    /\ commit_info = NoCommitInfo
    /\ cleanable = <<>>
    /\ cleanable_objs = <<>>
    /\ stale_projects = <<>>
    /\ total_repos = 0
    /\ filtered_too_recent = 0
    /\ filtered_too_old = 0
    /\ filtered_no_commits = 0
    /\ filtered_no_cleanable = 0
    /\ exc = NoExc

\* No earlier scan.
NoRun == [stale_projects |-> <<>>, counters |-> <<>>, ran |-> FALSE]

\* The nuke command is not running.
NukeIdle ==
    /\ execute = FALSE
    /\ github_given = FALSE
    /\ github = FALSE
    /\ selected = <<>>
    /\ sel_i = 1
    /\ local_answer = "unasked"
    /\ github_answer = "unasked"
    /\ trashed = <<>>
    /\ gh_deleted = <<>>

ScanIdle ==
    /\ first_run = NoRun
    /\ NukeIdle
    /\ clock = 0
    /\ roots = <<>>
    /\ older_than_months = None
    /\ younger_than_months = None
    /\ cleanable_dirs = <<>>
    /\ pc = "idle"
    /\ ScanLocalsInit

----------------------------------------------------------------------------
(* The locator on its own: find_git_repos applied to every filesystem of  *)
(* the bound and every root.                                               *)

LocNames == {"a", ".h"}

LocTrees == TreesUpTo(LocMaxEntries, LocNames \cup {GitName}, {GitName})

FsInit(trees, orders) ==
    /\ \E t \in trees :
        /\ dirs = t.d
        /\ files = t.f
    /\ denied \in {{}} \cup {{d} : d \in dirs}
    /\ order \in orders
    /\ stat_propagates \in BOOLEAN

LocIdle ==
    /\ loc_root = <<>>
    /\ loc_pc = "idle"
    /\ loc_repos = <<>>

ArtIdle ==
    /\ art_project = <<>>
    /\ art_names = <<>>
    /\ art_pc = "idle"
    /\ art_results = <<>>

LocInit ==
    /\ FsInit(LocTrees, Perms(LocNames \cup {GitName}))
    /\ ArtIdle
    /\ ScanIdle
    /\ loc_root \in {<<>>} \cup {<<n>> : n \in LocNames} \cup dirs
    /\ loc_pc = "call"
    /\ loc_repos = <<>>

FindGitRepos ==
    /\ loc_pc = "call"
    /\ IF find_git_repos_raises(loc_root)
       THEN /\ loc_pc' = "raised"
            /\ loc_repos' = <<>>
       ELSE /\ loc_pc' = "returned"
            /\ loc_repos' = find_git_repos(loc_root)
    /\ UNCHANGED <<fs_vars, loc_root, art_vars, scan_vars, ext_vars>>

LocNext == FindGitRepos

SpecLocator == LocInit /\ [][LocNext]_vars

----------------------------------------------------------------------------
(* Claims about the locator. *)

Returned(p) == \E i \in DOMAIN loc_repos : loc_repos[i] = p

HasGitEntry(d) == Append(d, GitName) \in dirs \/ Append(d, GitName) \in files

\* C3: the list returned by one call of find_git_repos never holds two paths
\* one of which is an ancestor of the other.
C3_NoNestedRepos ==
    loc_pc = "returned" =>
        \A i, j \in DOMAIN loc_repos : ~IsAncestor(loc_repos[i], loc_repos[j])

\* A repository was returned although another repository lies inside it.
C3_Witness ==
    /\ loc_pc = "returned"
    /\ \E i \in DOMAIN loc_repos :
        \E d \in dirs : IsAncestor(loc_repos[i], d) /\ HasGitEntry(d)

\* C4 as stated: no returned path lies strictly beneath a hidden directory,
\* wherever that hidden directory is.
C4_Original ==
    loc_pc = "returned" =>
        \A i \in DOMAIN loc_repos :
            \A k \in 1..(Len(loc_repos[i]) - 1) :
                ~StartsWithDot(loc_repos[i][k])

\* C4 amended: no returned path lies strictly beneath a hidden directory
\* that itself lies strictly beneath the root of the call.
C4_NoRepoBeneathHidden ==
    loc_pc = "returned" =>
        \A i \in DOMAIN loc_repos :
            \A k \in (Len(loc_root) + 1)..(Len(loc_repos[i]) - 1) :
                ~StartsWithDot(loc_repos[i][k])

\* A hidden directory below the root was returned as a repository while a
\* repository strictly beneath it was not.
C4_Witness ==
    /\ loc_pc = "returned"
    /\ \E i \in DOMAIN loc_repos :
        /\ IsAncestor(loc_root, loc_repos[i])
        /\ StartsWithDot(BaseName(loc_repos[i]))
        /\ \E d \in dirs :
            IsAncestor(loc_repos[i], d) /\ HasGitEntry(d) /\ ~Returned(d)

\* The repositories a walk from root reaches when nothing fails: d holds a
\* .git entry, no directory from root down to d's parent holds one, and no
\* directory strictly between root and d is hidden.
WalkReaches(root, d) ==
    /\ d = <<>> \/ d \in dirs
    /\ IsPrefix(root, d)
    /\ HasGitEntry(d)
    /\ \A k \in Len(root)..(Len(d) - 1) : ~HasGitEntry(SubSeq(d, 1, k))
    /\ \A k \in (Len(root) + 1)..(Len(d) - 1) : ~StartsWithDot(d[k])

\* d lies in the subtree of a directory that cannot be read or tested.
InFailingSubtree(d) == \E x \in denied : IsPrefix(x, d)

\* C10: a failing directory costs only its own subtree: every repository
\* the walk would otherwise reach outside it is still returned.
C10_OnlyFailingSubtreeSkipped ==
    loc_pc = "returned" =>
        \A d \in dirs \cup {<<>>} :
            (WalkReaches(loc_root, d) /\ ~InFailingSubtree(d)) => Returned(d)

\* C19: with no read failures find_git_repos(root) returns exactly the
\* directories at or under root that hold a .git entry (directory or file),
\* have no directory from root down to their parent holding one, and have no
\* hidden directory strictly between root and them; each exactly once.
C19_ExactlyTheReachedRepos ==
    (loc_pc = "returned" /\ denied = {}) =>
        /\ \A d \in dirs \cup {<<>>} : Returned(d) <=> WalkReaches(loc_root, d)
        /\ \A i \in DOMAIN loc_repos : loc_repos[i] = <<>> \/ loc_repos[i] \in dirs
        /\ \A i, j \in DOMAIN loc_repos : loc_repos[i] = loc_repos[j] => i = j

\* A readable tree where a repository marked by a .git file was returned,
\* beside a hidden directory whose inner repository was not.
C19_Witness ==
    /\ loc_pc = "returned"
    /\ denied = {}
    /\ \E i \in DOMAIN loc_repos : Append(loc_repos[i], GitName) \in files
    /\ \E d \in dirs :
        /\ HasGitEntry(d)
        /\ IsAncestor(loc_root, d)
        /\ StartsWithDot(BaseName(Parent(d)))
        /\ ~Returned(d)

----------------------------------------------------------------------------
(* utils/filesystem.py: find_cleanable_directories *)

\* Path.iterdir() raises PermissionError (the only error line 60 catches).
IterdirPermissionError(p) == p \in denied \/ StatDenied(p)

RECURSIVE matches(_, _, _)
\* One pass of "for name in cleanable_dirs" over the children of dir, from
\* the j-th name on: the (path, type) tuples appended, and whether
\* candidate.is_dir() raised before the pass ended.
matches(dir, names, j) ==
    IF j > Len(names) THEN [found |-> <<>>, raised |-> FALSE]
    ELSE LET candidate == Append(dir, names[j]) IN
        IF IsDirRaises(candidate) THEN [found |-> <<>>, raised |-> TRUE]
        ELSE LET rest == matches(dir, names, j + 1)
                 here == IF IsDir(candidate)
                         THEN <<[path |-> candidate, type |-> names[j]]>>
                         ELSE <<>>
             IN  [found |-> here \o rest.found, raised |-> rest.raised]

RECURSIVE one_level_deep_at_root(_, _, _)
\* one_level_deep with line 57 looking in project_path instead of subdir.
one_level_deep_at_root(subdirs, names, i) ==
    IF i > Len(subdirs) THEN <<>>
    ELSE LET subdir == subdirs[i] IN
        IF IsDir(subdir) /\ ~StartsWithDot(BaseName(subdir))
        THEN matches(Parent(subdir), names, 1).found
             \o one_level_deep_at_root(subdirs, names, i + 1)
        ELSE one_level_deep_at_root(subdirs, names, i + 1)

RECURSIVE one_level_deep(_, _, _)
\* The loop over project_path.iterdir() of lines 54-59, from the i-th
\* subdirectory on.  A PermissionError leaves the loop for line 60; the
\* tuples appended before it stay in results.
one_level_deep(subdirs, names, i) ==
    IF i > Len(subdirs) THEN <<>>
    ELSE LET subdir == subdirs[i] IN
        IF IsDirRaises(subdir) THEN <<>>
        ELSE IF IsDir(subdir) /\ ~StartsWithDot(BaseName(subdir)) THEN
            LET m == matches(subdir, names, 1)
            IN  IF m.raised THEN m.found
                ELSE m.found \o one_level_deep(subdirs, names, i + 1)
        ELSE one_level_deep(subdirs, names, i + 1)

\* The root-level pass (line 47) runs outside the try, and line 60 catches
\* PermissionError only.
find_cleanable_directories_raises(project_path, names) ==
    \/ matches(project_path, names, 1).raised
    \/ IterdirRaises(project_path) /\ ~IterdirPermissionError(project_path)

\* find_cleanable_directories with the root-level pass of lines 47-50 lost.
find_cleanable_directories_no_root(project_path, names) ==
    IF IterdirRaises(project_path) THEN <<>>
    ELSE one_level_deep(Listing(project_path), names, 1)

find_cleanable_directories(project_path, names) ==
    matches(project_path, names, 1).found
    \o (IF IterdirRaises(project_path) THEN <<>>
        ELSE one_level_deep(Listing(project_path), names, 1))

----------------------------------------------------------------------------
(* The artifact locator on its own: find_cleanable_directories applied to  *)
(* an accessible project directory (the scanner passes it repositories     *)
(* whose .git entry find_git_repos has just read).                         *)

NodeModules == "node_modules"

ArtNames == {NodeModules, "venv", "packages", ".h"}

\* The monorepo layout of the spec's testable property, and its subtrees.
MonorepoPaths ==
    { <<NodeModules>>,
      <<"packages">>,
      <<"packages", NodeModules>>,
      <<"packages", "api">>,
      <<"packages", "api", NodeModules>>,
      <<"packages", "api", NodeModules, "foo">>,
      <<"packages", "api", NodeModules, "foo", NodeModules>> }

MonorepoTrees ==
    {[d |-> D, f |-> {}] :
        D \in {E \in SUBSET MonorepoPaths : \A p \in E : Parent(p) = <<>> \/ Parent(p) \in E}}

ArtTrees == TreesUpTo(ArtMaxEntries, ArtNames, {NodeModules}) \cup MonorepoTrees

ArtOrder == <<NodeModules, "venv", "packages", ".h", "api", "foo">>

Reverse(s) == [i \in 1..Len(s) |-> s[Len(s) + 1 - i]]

\* cleanable_dirs is a set: its elements, in each order it may iterate in.
CleanableChoices ==
    {<<>>, <<NodeModules>>, <<NodeModules, "venv">>, <<"venv", NodeModules>>}

ArtInit ==
    /\ FsInit(ArtTrees, {ArtOrder, Reverse(ArtOrder)})
    /\ LocIdle
    /\ ScanIdle
    /\ art_project \in {<<>>} \cup {d \in dirs : Len(d) = 1}
    /\ \A x \in denied : IsAncestor(art_project, x)
    /\ art_names \in CleanableChoices
    /\ art_pc = "call"
    /\ art_results = <<>>

FindCleanableDirectories ==
    /\ art_pc = "call"
    /\ IF find_cleanable_directories_raises(art_project, art_names)
       THEN /\ art_pc' = "raised"
            /\ art_results' = <<>>
       ELSE /\ art_pc' = "returned"
            /\ art_results' = find_cleanable_directories(art_project, art_names)
    /\ UNCHANGED <<fs_vars, loc_vars, art_project, art_names, scan_vars, ext_vars>>

ArtNext == FindCleanableDirectories

SpecArtifacts == ArtInit /\ [][ArtNext]_vars

----------------------------------------------------------------------------
(* Claims about the artifact locator. *)

Found(p) == \E i \in DOMAIN art_results : art_results[i].path = p

MonorepoCase ==
    /\ art_pc = "returned"
    /\ art_names = <<NodeModules>>
    /\ Append(art_project, NodeModules) \in dirs
    /\ art_project \o <<"packages", "api", NodeModules>> \in dirs

\* C5 as stated: for a root holding node_modules and
\* packages/api/node_modules, both are returned and
\* packages/api/node_modules/foo/node_modules is not.
C5_Original ==
    MonorepoCase =>
        /\ Found(Append(art_project, NodeModules))
        /\ Found(art_project \o <<"packages", "api", NodeModules>>)
        /\ ~Found(art_project \o <<"packages", "api", NodeModules, "foo", NodeModules>>)

\* C5 amended: for such a root, node_modules at the root is returned, and
\* neither packages/api/node_modules (two levels down) nor
\* packages/api/node_modules/foo/node_modules is.
C5_MonorepoDepth ==
    MonorepoCase =>
        /\ Found(Append(art_project, NodeModules))
        /\ ~Found(art_project \o <<"packages", "api", NodeModules>>)
        /\ ~Found(art_project \o <<"packages", "api", NodeModules, "foo", NodeModules>>)

\* The monorepo of the claim, with the deep node_modules present.
C5_Witness ==
    /\ MonorepoCase
    /\ art_project \o <<"packages", "api", NodeModules, "foo", NodeModules>> \in dirs
    /\ Len(art_results) = 1

\* C6: no path of the result lies inside another path of the same result.
C6_NoMatchInsideMatch ==
    art_pc = "returned" =>
        \A i, j \in DOMAIN art_results :
            ~IsAncestor(art_results[i].path, art_results[j].path)

\* C17: the list find_cleanable_directories returns holds no path more than
\* once: a root-level match and a one-level-deep match never coincide.
C17_NoDuplicateMatches ==
    art_pc = "returned" =>
        \A i, j \in DOMAIN art_results :
            art_results[i].path = art_results[j].path => i = j

\* A root-level match and a one-level-deep match were returned together.
C17_Witness ==
    /\ art_pc = "returned"
    /\ \E i, j \in DOMAIN art_results :
        /\ Parent(art_results[i].path) = art_project
        /\ Parent(Parent(art_results[j].path)) = art_project
        /\ Len(art_results[j].path) = Len(art_project) + 2

----------------------------------------------------------------------------
(* Time.  An instant is a day number; months are calendar months of unequal *)
(* length, and relativedelta(months=n) keeps the day of the month, clipped  *)
(* to the length of the month it lands in.                                  *)

MonthLen(m) == IF m % 2 = 0 THEN 1 ELSE 2

RECURSIVE MonthStart(_)
MonthStart(m) == IF m = 0 THEN 0 ELSE MonthStart(m - 1) + MonthLen(m - 1)

MonthOf(t) == CHOOSE m \in 0..t : MonthStart(m) <= t /\ t < MonthStart(m + 1)

DayOf(t) == t - MonthStart(MonthOf(t))

\* t - relativedelta(months=n)
MonthsBefore(t, n) ==
    LET m == MonthOf(t) - n
        d == IF DayOf(t) < MonthLen(m) THEN DayOf(t) ELSE MonthLen(m) - 1
    IN  MonthStart(m) + d

\* The instant the scan starts at: the last day of a month, so that a
\* second datetime.now() may fall into the next month and a day of the month
\* may have to be clipped.
ClockChoices == {MonthStart(MaxMonths + 1) - 1}

\* The commit timestamps git may report.
CommitTimes == 0..MonthStart(MaxMonths + 1)

----------------------------------------------------------------------------
(* The external tools: one subprocess.run of git or du ends with an         *)
(* exception of subprocess, or with exit status 0 and some standard output. *)

Caught == {"CalledProcessError", "ValueError", "TimeoutExpired"}

RunFailures == {"FileNotFoundError", "CalledProcessError", "TimeoutExpired"}

GitRuns ==
    {[status |-> e, stdout |-> "", ts |-> 0] : e \in RunFailures}
    \cup {[status |-> "ok", stdout |-> o, ts |-> 0] :
            o \in {"", "no separator", "not an integer|subject"}}
    \cup {[status |-> "ok", stdout |-> "timestamp|subject", ts |-> t] :
            t \in CommitTimes}

\* The exception raised inside the try of get_last_commit_info, "" if none:
\* subprocess.run's own, or the ValueError of the unpacking of split("|", 1)
\* or of int().
git_exception(run) ==
    IF run.status # "ok" THEN run.status
    ELSE IF run.stdout = "" THEN ""
    ELSE IF run.stdout = "no separator" THEN "ValueError"
    ELSE IF run.stdout = "not an integer|subject" THEN "ValueError"
    ELSE ""

get_last_commit_info_raises(run) ==
    git_exception(run) # "" /\ git_exception(run) \notin Caught

get_last_commit_info(run) ==
    IF git_exception(run) # "" THEN NoCommitInfo
    ELSE IF run.stdout = "" THEN NoCommitInfo
    ELSE [kind |-> "value", date |-> run.ts, message |-> "subject"]

\* The sizes du -sk may report, in KB.
DuKb == {51200}

DuRuns ==
    {[status |-> e, stdout |-> "", kb |-> 0] : e \in RunFailures}
    \cup {[status |-> "ok", stdout |-> o, kb |-> 0] : o \in {"", "not an integer"}}
    \cup {[status |-> "ok", stdout |-> "kb path", kb |-> k] : k \in DuKb}

\* The exception raised inside the try of get_directory_size, "" if none:
\* "".split()[0] is an IndexError, int() of a non-number a ValueError.
du_exception(run) ==
    IF run.status # "ok" THEN run.status
    ELSE IF run.stdout = "" THEN "IndexError"
    ELSE IF run.stdout = "not an integer" THEN "ValueError"
    ELSE ""

get_directory_size_raises(run) ==
    du_exception(run) # "" /\ du_exception(run) \notin Caught

get_directory_size(run) ==
    IF du_exception(run) # "" THEN 0 ELSE run.kb * 1024

----------------------------------------------------------------------------
(* models.py: ScanResult, and the call that builds it at scanner.py:142.    *)

ScanResultFields ==
    {"stale_projects", "total_repos_scanned", "older_than_months",
     "younger_than_months", "filtered_too_recent", "filtered_too_old",
     "filtered_no_commits", "filtered_no_cleanable"}

\* The fields of ScanResult without a default.
ScanResultRequired == {"stale_projects", "total_repos_scanned"}

\* The keywords scan_for_stale_projects passes to ScanResult.
ScanResultKeywords ==
    {"stale_projects", "total_repos_scanned", "older_than_months",
     "younger_than_months", "ignored_repos", "filtered_too_recent",
     "filtered_too_old", "filtered_no_commits", "filtered_no_cleanable"}

\* A dataclass __init__ raises TypeError on a keyword that is no field and
\* on a missing required field.
ScanResultInitRaises(keywords) ==
    \/ ~(keywords \subseteq ScanResultFields)
    \/ ~(ScanResultRequired \subseteq keywords)

----------------------------------------------------------------------------
(* scanner.py: scan_for_stale_projects *)

\* Line 83 with > for >=.
too_recent_strict(last_commit_date) ==
    older_cutoff # None /\ last_commit_date > older_cutoff

\* Line 94 with <= for <.
too_old_inclusive(last_commit_date) ==
    younger_cutoff # None /\ last_commit_date <= younger_cutoff

\* Line 67 with the test lost.
no_commit_info_never(info) == FALSE

\* Line 67: "if not commit_info".
no_commit_info(info) == info = NoCommitInfo

\* Line 108 with the test lost.
no_cleanable_never(found) == FALSE

\* Line 108: "if not cleanable".
no_cleanable(found) == found = <<>>

\* Line 83: the repository is too recent.
too_recent(last_commit_date) ==
    older_cutoff # None /\ last_commit_date >= older_cutoff

\* Line 94: the repository is too old.
too_old(last_commit_date) ==
    younger_cutoff # None /\ last_commit_date < younger_cutoff

ScanNames == {"a", "venv"}

ScanTrees == TreesUpTo(ScanMaxEntries, ScanNames \cup {GitName}, {})

ScanOrder == <<"a", "venv", GitName>>

RECURSIVE SeqsUpTo(_, _)
SeqsUpTo(S, n) ==
    IF n = 0 THEN {<<>>}
    ELSE LET R == SeqsUpTo(S, n - 1)
         IN  R \cup {Append(r, x) : r \in R, x \in S}

MonthChoices == {None} \cup 0..MaxMonths

ScanInit ==
    /\ FsInit(ScanTrees, {ScanOrder})
    /\ denied = {}
    /\ stat_propagates
    /\ LocIdle
    /\ ArtIdle
    /\ clock \in ClockChoices
    /\ roots \in SeqsUpTo({<<>>, <<"a">>}, MaxRoots)
    /\ older_than_months \in MonthChoices
    /\ younger_than_months \in MonthChoices
    /\ cleanable_dirs = <<"venv">>
    /\ pc = "start"
    /\ ScanLocalsInit
    /\ first_run = NoRun
    /\ NukeIdle

Raise(type, where) ==
    /\ pc' = "raised"
    /\ exc' = [type |-> type, where |-> where]

\* The end of one iteration of the loop of line 63: continue.
NextRepo ==
    /\ repo_i' = repo_i + 1
    /\ pc' = "repos"

\* Lines 37-44: the cutoffs, each from its own datetime.now(); time may
\* pass between the two calls when both are made.
ComputeCutoffs ==
    /\ pc = "start"
    /\ \E later \in
            IF older_than_months # None /\ younger_than_months # None
            THEN {clock, clock + 1} ELSE {clock} :
        /\ clock' = later
        /\ now_read' = <<clock, later>>
        /\ older_cutoff' =
            IF older_than_months # None
            THEN MonthsBefore(clock, older_than_months) ELSE None
        /\ younger_cutoff' =
            IF younger_than_months # None
            THEN MonthsBefore(later, younger_than_months) ELSE None
    /\ pc' = "roots"
    /\ UNCHANGED <<fs_vars, loc_vars, art_vars, ext_vars, scan_args, root_i, repos,
                   repo_i, commit_info, cleanable, cleanable_objs,
                   stale_projects, counters, exc>>

\* Line 55, the roots exhausted: on to the return statement.
RootsDone ==
    /\ pc = "roots"
    /\ root_i > Len(roots)
    /\ pc' = "return"
    /\ UNCHANGED <<fs_vars, loc_vars, art_vars, ext_vars, clock, scan_args, now_read,
                   older_cutoff, younger_cutoff, root_i, repos, repo_i,
                   commit_info, cleanable, cleanable_objs, stale_projects,
                   counters, exc>>

\* Lines 56-59 with break for continue.
SkipMissingRootBreaks ==
    /\ pc = "roots"
    /\ root_i <= Len(roots)
    /\ ~ExistsRaises(roots[root_i])
    /\ ~PathExists(roots[root_i])
    /\ pc' = "return"
    /\ UNCHANGED <<fs_vars, loc_vars, art_vars, ext_vars, clock, scan_args, now_read,
                   older_cutoff, younger_cutoff, root_i, repos, repo_i,
                   commit_info, cleanable, cleanable_objs, stale_projects,
                   counters, exc>>

\* Lines 56-59: a root that does not exist is skipped.
SkipMissingRoot ==
    /\ pc = "roots"
    /\ root_i <= Len(roots)
    /\ ~ExistsRaises(roots[root_i])
    /\ ~PathExists(roots[root_i])
    /\ root_i' = root_i + 1
    /\ UNCHANGED <<fs_vars, loc_vars, art_vars, ext_vars, clock, scan_args, pc, now_read,
                   older_cutoff, younger_cutoff, repos, repo_i, commit_info,
                   cleanable, cleanable_objs, stale_projects, counters, exc>>

\* Lines 56-61: root.exists(), then find_git_repos(root).
ScanRoot ==
    /\ pc = "roots"
    /\ root_i <= Len(roots)
    /\ ExistsRaises(roots[root_i]) \/ PathExists(roots[root_i])
    /\ IF ExistsRaises(roots[root_i])
       THEN /\ Raise("PermissionError", "Path.exists")
            /\ UNCHANGED <<repos, repo_i>>
       ELSE /\ repos' = find_git_repos(roots[root_i])
            /\ repo_i' = 1
            /\ pc' = "repos"
            /\ UNCHANGED exc
    /\ UNCHANGED <<fs_vars, loc_vars, art_vars, ext_vars, clock, scan_args, now_read,
                   older_cutoff, younger_cutoff, root_i, commit_info,
                   cleanable, cleanable_objs, stale_projects, counters>>

\* Line 63, the repositories of the root exhausted: on to the next root.
ReposDone ==
    /\ pc = "repos"
    /\ repo_i > Len(repos)
    /\ root_i' = root_i + 1
    /\ pc' = "roots"
    /\ UNCHANGED <<fs_vars, loc_vars, art_vars, ext_vars, clock, scan_args, now_read,
                   older_cutoff, younger_cutoff, repos, repo_i, commit_info,
                   cleanable, cleanable_objs, stale_projects, counters, exc>>

\* Lines 64-66: the repository is counted and git is run on it.
GetLastCommitInfo ==
    /\ pc = "repos"
    /\ repo_i <= Len(repos)
    /\ total_repos' = total_repos + 1
    /\ \E run \in GitRuns :
        IF get_last_commit_info_raises(run)
        THEN /\ Raise(git_exception(run), "get_last_commit_info")
             /\ UNCHANGED commit_info
        ELSE /\ commit_info' = get_last_commit_info(run)
             /\ pc' = "commit"
             /\ UNCHANGED exc
    /\ UNCHANGED <<fs_vars, loc_vars, art_vars, ext_vars, clock, scan_args, now_read,
                   older_cutoff, younger_cutoff, root_i, repos, repo_i,
                   cleanable, cleanable_objs, stale_projects,
                   filtered_too_recent, filtered_too_old, filtered_no_commits,
                   filtered_no_cleanable>>

\* Lines 67-78: no commit information.
FilterNoCommits ==
    /\ pc = "commit"
    /\ no_commit_info(commit_info)
    /\ filtered_no_commits' = filtered_no_commits + 1
    /\ NextRepo
    /\ UNCHANGED <<commit_info, cleanable, cleanable_objs, fs_vars, loc_vars, art_vars, ext_vars, clock, scan_args, now_read,
                   older_cutoff, younger_cutoff, root_i, repos, stale_projects, total_repos,
                   filtered_too_recent, filtered_too_old,
                   filtered_no_cleanable, exc>>

\* Lines 83-93 without the continue of line 93 keeping line 95 away: a
\* repository that violates both bounds is counted twice.
FilterTooRecentCountsBoth ==
    /\ pc = "commit"
    /\ ~no_commit_info(commit_info)
    /\ too_recent(commit_info.date)
    /\ filtered_too_recent' = filtered_too_recent + 1
    /\ filtered_too_old' =
        IF too_old(commit_info.date) THEN filtered_too_old + 1
        ELSE filtered_too_old
    /\ NextRepo
    /\ UNCHANGED <<commit_info, cleanable, cleanable_objs, fs_vars, loc_vars, art_vars, ext_vars, clock, scan_args, now_read,
                   older_cutoff, younger_cutoff, root_i, repos, stale_projects, total_repos,
                   filtered_no_commits, filtered_no_cleanable, exc>>

\* Lines 83-93.
FilterTooRecent ==
    /\ pc = "commit"
    /\ ~no_commit_info(commit_info)
    /\ too_recent(commit_info.date)
    /\ filtered_too_recent' = filtered_too_recent + 1
    /\ NextRepo
    /\ UNCHANGED <<commit_info, cleanable, cleanable_objs, fs_vars, loc_vars, art_vars, ext_vars, clock, scan_args, now_read,
                   older_cutoff, younger_cutoff, root_i, repos, stale_projects, total_repos,
                   filtered_too_old, filtered_no_commits,
                   filtered_no_cleanable, exc>>

\* Lines 94-104.
FilterTooOld ==
    /\ pc = "commit"
    /\ ~no_commit_info(commit_info)
    /\ ~too_recent(commit_info.date)
    /\ too_old(commit_info.date)
    /\ filtered_too_old' = filtered_too_old + 1
    /\ NextRepo
    /\ UNCHANGED <<commit_info, cleanable, cleanable_objs, fs_vars, loc_vars, art_vars, ext_vars, clock, scan_args, now_read,
                   older_cutoff, younger_cutoff, root_i, repos, stale_projects, total_repos,
                   filtered_too_recent, filtered_no_commits,
                   filtered_no_cleanable, exc>>

\* Lines 107-121: artifact discovery for a repository that passed the age
\* filters; none found counts it under filtered_no_cleanable.
FindCleanable ==
    /\ pc = "commit"
    /\ ~no_commit_info(commit_info)
    /\ ~too_recent(commit_info.date)
    /\ ~too_old(commit_info.date)
    /\ LET repo_path == repos[repo_i]
           found == find_cleanable_directories(repo_path, cleanable_dirs)
       IN  IF find_cleanable_directories_raises(repo_path, cleanable_dirs)
           THEN /\ Raise("PermissionError", "find_cleanable_directories")
                /\ UNCHANGED <<commit_info, cleanable, cleanable_objs, repo_i,
                               filtered_no_cleanable>>
           ELSE IF no_cleanable(found)
           THEN /\ filtered_no_cleanable' = filtered_no_cleanable + 1
                /\ cleanable' = found
                /\ NextRepo
                /\ UNCHANGED <<commit_info, cleanable_objs, exc>>
           ELSE /\ cleanable' = found
                /\ cleanable_objs' = <<>>
                /\ pc' = "sizes"
                /\ UNCHANGED <<commit_info, repo_i, filtered_no_cleanable, exc>>
    /\ UNCHANGED <<fs_vars, loc_vars, art_vars, ext_vars, clock, scan_args, now_read,
                   older_cutoff, younger_cutoff, root_i, repos,
                   stale_projects, total_repos, filtered_too_recent,
                   filtered_too_old, filtered_no_commits>>

\* Lines 122-130: du is run on the next cleanable directory.
GetDirectorySize ==
    /\ pc = "sizes"
    /\ Len(cleanable_objs) < Len(cleanable)
    /\ LET c == cleanable[Len(cleanable_objs) + 1]
       IN  \E run \in DuRuns :
            IF get_directory_size_raises(run)
            THEN /\ Raise(du_exception(run), "get_directory_size")
                 /\ UNCHANGED cleanable_objs
            ELSE /\ cleanable_objs' =
                        Append(cleanable_objs,
                               [path |-> c.path, dir_type |-> c.type,
                                size_bytes |-> get_directory_size(run)])
                 /\ UNCHANGED <<pc, exc>>
    /\ UNCHANGED <<fs_vars, loc_vars, art_vars, ext_vars, clock, scan_args, now_read,
                   older_cutoff, younger_cutoff, root_i, repos, repo_i,
                   commit_info, cleanable, stale_projects, counters>>

\* Lines 132-140.
AppendProject ==
    /\ pc = "sizes"
    /\ Len(cleanable_objs) = Len(cleanable)
    /\ stale_projects' =
        Append(stale_projects,
               [path |-> repos[repo_i],
                name |-> BaseName(repos[repo_i]),
                last_commit_date |-> commit_info.date,
                last_commit_message |-> commit_info.message,
                cleanable_dirs |-> cleanable_objs])
    /\ NextRepo
    /\ UNCHANGED <<commit_info, cleanable, cleanable_objs, fs_vars, loc_vars, art_vars, ext_vars, clock, scan_args, now_read,
                   older_cutoff, younger_cutoff, root_i, repos, counters, exc>>

\* Lines 142-152: ScanResult(...) is built and returned.
Return ==
    /\ pc = "return"
    /\ IF ScanResultInitRaises(ScanResultKeywords)
       THEN Raise("TypeError", "ScanResult")
       ELSE pc' = "done" /\ UNCHANGED exc
    /\ UNCHANGED <<fs_vars, loc_vars, art_vars, ext_vars, clock, scan_args, now_read,
                   older_cutoff, younger_cutoff, root_i, repos, repo_i,
                   commit_info, cleanable, cleanable_objs, stale_projects,
                   counters>>

Next ==
    \/ ComputeCutoffs
    \/ RootsDone
    \/ SkipMissingRoot
    \/ ScanRoot
    \/ ReposDone
    \/ GetLastCommitInfo
    \/ FilterNoCommits
    \/ FilterTooRecent
    \/ FilterTooOld
    \/ FindCleanable
    \/ GetDirectorySize
    \/ AppendProject
    \/ Return

Spec == ScanInit /\ [][Next]_vars

----------------------------------------------------------------------------
(* The scan run twice on one tree: a second call of                        *)
(* scan_for_stale_projects with the same arguments, made after the first   *)
(* got as far as building its result.  cleanable_dirs is a set of str: the *)
(* second call (another process, another hash seed) may iterate it in      *)
(* another order.                                                          *)

TwiceTrees ==
    { {<<GitName>>, <<"venv">>, <<"env">>},
      {<<GitName>>, <<"venv">>},
      {<<GitName>>} }

TwiceOrder == <<"venv", "env", GitName>>

TwiceInit ==
    /\ dirs \in TwiceTrees
    /\ files = {}
    /\ denied = {}
    /\ order = TwiceOrder
    /\ stat_propagates = TRUE
    /\ LocIdle
    /\ ArtIdle
    /\ NukeIdle
    /\ clock \in ClockChoices
    /\ roots \in { << <<>> >>, << <<"a">>, <<>> >> }
    /\ older_than_months \in MonthChoices
    /\ younger_than_months \in MonthChoices
    /\ cleanable_dirs \in Perms({"venv", "env"})
    /\ pc = "start"
    /\ ScanLocalsInit
    /\ first_run = NoRun

\* The scan reached line 142 with its locals complete.
BuiltResult == pc = "done" \/ (pc = "raised" /\ exc.where = "ScanResult")

\* Lines 14-53 entered a second time: the locals start afresh, what the
\* first call computed is kept for comparison.
Rescan ==
    /\ BuiltResult
    /\ ~first_run.ran
    /\ first_run' = [stale_projects |-> stale_projects,
                     counters |-> counters,
                     ran |-> TRUE]
    /\ cleanable_dirs' \in Perms({cleanable_dirs[k] : k \in DOMAIN cleanable_dirs})
    /\ pc' = "start"
    /\ now_read' = <<>>
    /\ older_cutoff' = None
    /\ younger_cutoff' = None
    /\ root_i' = 1
    /\ repos' = <<>>
    /\ repo_i' = 1
    /\ commit_info' = NoCommitInfo
    /\ cleanable' = <<>>
    /\ cleanable_objs' = <<>>
    /\ stale_projects' = <<>>
    /\ total_repos' = 0
    /\ filtered_too_recent' = 0
    /\ filtered_too_old' = 0
    /\ filtered_no_commits' = 0
    /\ filtered_no_cleanable' = 0
    /\ exc' = NoExc
    /\ UNCHANGED <<fs_vars, loc_vars, art_vars, nuke_vars, clock, roots,
                   older_than_months, younger_than_months>>

TwiceNext == Next \/ Rescan

SpecTwice == TwiceInit /\ [][TwiceNext]_vars

----------------------------------------------------------------------------
(* cli.py: the nuke command.  It walks the roots with its own copy of the  *)
(* scan loop (lines 410-454), asks which projects to delete, and deletes   *)
(* them locally and, with --github, on GitHub.                             *)

\* get_github_remote's return value None.
NoRemote == "<None>"

\* What "git remote get-url origin" may print, and what lines 63-76 of
\* git.py make of it.
RemoteUrls ==
    { [url |-> "https://github.com/o/r.git", name |-> "o/r"],
      [url |-> "git@github.com:o/r.git", name |-> "o/r"],
      [url |-> "https://github.com/", name |-> ""],
      [url |-> "ssh://git@github.com/o/r.git", name |-> NoRemote],
      [url |-> "https://gitlab.com/o/r.git", name |-> NoRemote] }

RemoteRuns ==
    {[status |-> e, out |-> [url |-> "", name |-> NoRemote]] : e \in RunFailures}
    \cup {[status |-> "ok", out |-> u] : u \in RemoteUrls}

\* get_github_remote catches CalledProcessError and TimeoutExpired only.
get_github_remote_raises(run) ==
    run.status \notin {"ok", "CalledProcessError", "TimeoutExpired"}

get_github_remote(run) ==
    IF run.status # "ok" THEN NoRemote ELSE run.out.name

\* The truth value of project['github_remote'].
HasRemote(project) == project.github_remote \notin {NoRemote, ""}

\* trash_directory(path, execute): whether the trash command is run at all.
trash_directory_runs(execute_arg) == execute_arg

NukeTrees ==
    { {<<"a">>, <<"a", GitName>>, <<"b">>, <<"b", GitName>>},
      {<<"a">>, <<"a", GitName>>},
      {<<GitName>>} }

NukeOrder == <<"a", "b", GitName>>

NukeInit ==
    /\ dirs \in NukeTrees
    /\ files = {}
    /\ denied = {}
    /\ order = NukeOrder
    /\ stat_propagates = TRUE
    /\ LocIdle
    /\ ArtIdle
    /\ clock \in ClockChoices
    /\ roots \in { << <<>> >>, << <<"c">>, <<>> >> }
    /\ older_than_months \in MonthChoices
    /\ younger_than_months \in MonthChoices
    /\ cleanable_dirs = <<>>
    /\ pc = "nuke_start"
    /\ ScanLocalsInit
    /\ first_run = NoRun
    /\ execute \in BOOLEAN
    /\ github_given \in BOOLEAN
    /\ github = github_given
    /\ selected = <<>>
    /\ sel_i = 1
    /\ local_answer = "unasked"
    /\ github_answer = "unasked"
    /\ trashed = <<>>
    /\ gh_deleted = <<>>

\* Lines 410-419: the cutoffs, as in the scanner.
NukeComputeCutoffs ==
    /\ pc = "nuke_start"
    /\ \E later \in
            IF older_than_months # None /\ younger_than_months # None
            THEN {clock, clock + 1} ELSE {clock} :
        /\ clock' = later
        /\ now_read' = <<clock, later>>
        /\ older_cutoff' =
            IF older_than_months # None
            THEN MonthsBefore(clock, older_than_months) ELSE None
        /\ younger_cutoff' =
            IF younger_than_months # None
            THEN MonthsBefore(later, younger_than_months) ELSE None
    /\ pc' = "nuke_roots"
    /\ UNCHANGED <<fs_vars, loc_vars, art_vars, ext_vars, scan_args, root_i,
                   repos, repo_i, commit_info, cleanable, cleanable_objs,
                   stale_projects, counters, exc>>

\* Lines 422-427: the next root; a missing one is skipped.
NukeNextRoot ==
    /\ pc = "nuke_roots"
    /\ root_i <= Len(roots)
    /\ IF ExistsRaises(roots[root_i])
       THEN /\ Raise("PermissionError", "Path.exists")
            /\ UNCHANGED <<root_i, repos, repo_i>>
       ELSE IF ~PathExists(roots[root_i])
       THEN /\ root_i' = root_i + 1
            /\ UNCHANGED <<pc, exc, repos, repo_i>>
       ELSE /\ repos' = find_git_repos(roots[root_i])
            /\ repo_i' = 1
            /\ pc' = "nuke_repos"
            /\ UNCHANGED <<root_i, exc>>
    /\ UNCHANGED <<fs_vars, loc_vars, art_vars, ext_vars, clock, scan_args,
                   now_read, older_cutoff, younger_cutoff, commit_info,
                   cleanable, cleanable_objs, stale_projects, counters>>

\* Line 429, the repositories of the root exhausted.
NukeReposDone ==
    /\ pc = "nuke_repos"
    /\ repo_i > Len(repos)
    /\ root_i' = root_i + 1
    /\ pc' = "nuke_roots"
    /\ UNCHANGED <<fs_vars, loc_vars, art_vars, ext_vars, clock, scan_args,
                   now_read, older_cutoff, younger_cutoff, repos, repo_i,
                   commit_info, cleanable, cleanable_objs, stale_projects,
                   counters, exc>>

\* Lines 430-454: one repository: counted, dated, filtered by age, and
\* appended with its GitHub remote when --github was given.
NukeExamineRepo ==
    /\ pc = "nuke_repos"
    /\ repo_i <= Len(repos)
    /\ total_repos' = total_repos + 1
    /\ \E run \in GitRuns, remote \in RemoteRuns :
        LET info == get_last_commit_info(run)
            repo_path == repos[repo_i]
        IN  IF get_last_commit_info_raises(run)
            THEN /\ Raise(git_exception(run), "get_last_commit_info")
                 /\ UNCHANGED <<commit_info, repo_i, stale_projects>>
            ELSE IF \/ no_commit_info(info)
                    \/ too_recent(info.date)
                    \/ too_old(info.date)
            THEN /\ commit_info' = info
                 /\ repo_i' = repo_i + 1
                 /\ UNCHANGED <<pc, exc, stale_projects>>
            ELSE IF github /\ get_github_remote_raises(remote)
            THEN /\ commit_info' = info
                 /\ Raise(remote.status, "get_github_remote")
                 /\ UNCHANGED <<repo_i, stale_projects>>
            ELSE /\ commit_info' = info
                 /\ stale_projects' =
                        Append(stale_projects,
                               [path |-> repo_path,
                                name |-> BaseName(repo_path),
                                last_commit_date |-> info.date,
                                last_commit_message |-> info.message,
                                github_remote |->
                                    IF github THEN get_github_remote(remote)
                                    ELSE NoRemote])
                 /\ repo_i' = repo_i + 1
                 /\ UNCHANGED <<pc, exc>>
    /\ UNCHANGED <<fs_vars, loc_vars, art_vars, ext_vars, clock, scan_args,
                   now_read, older_cutoff, younger_cutoff, root_i, repos,
                   cleanable, cleanable_objs, filtered_too_recent,
                   filtered_too_old, filtered_no_commits,
                   filtered_no_cleanable>>

\* The elements of seq at the indices of S, in the order of seq.
Pick(seq, S) ==
    LET F[i \in 0..Len(seq)] ==
            IF i = 0 THEN <<>>
            ELSE IF i \in S THEN Append(F[i - 1], seq[i]) ELSE F[i - 1]
    IN  F[Len(seq)]

\* Lines 422 and 456-458: the roots exhausted; without a stale project the
\* command exits.
NukeRootsDone ==
    /\ pc = "nuke_roots"
    /\ root_i > Len(roots)
    /\ pc' = IF stale_projects = <<>> THEN "nuke_exit" ELSE "nuke_select"
    /\ UNCHANGED <<fs_vars, loc_vars, art_vars, ext_vars, clock, scan_args,
                   now_read, older_cutoff, younger_cutoff, root_i, repos,
                   repo_i, commit_info, cleanable, cleanable_objs,
                   stale_projects, counters, exc>>

\* Lines 497-505: the checkbox prompt; an empty selection exits.
NukeSelect ==
    /\ pc = "nuke_select"
    /\ \E S \in SUBSET DOMAIN stale_projects :
        /\ selected' = Pick(stale_projects, S)
        /\ pc' = IF S = {} THEN "nuke_exit" ELSE "nuke_selected"
    /\ UNCHANGED <<fs_vars, loc_vars, art_vars, first_run, execute,
                   github_given, github, sel_i, local_answer, github_answer,
                   trashed, gh_deleted, clock, scan_args, now_read,
                   older_cutoff, younger_cutoff, root_i, repos, repo_i,
                   commit_info, cleanable, cleanable_objs, stale_projects,
                   counters, exc>>

\* Lines 514-516: without --execute the run was a dry run.
NukeDryRunExit ==
    /\ pc = "nuke_selected"
    /\ ~execute
    /\ pc' = "nuke_exit"
    /\ UNCHANGED <<fs_vars, loc_vars, art_vars, ext_vars, clock, scan_args,
                   now_read, older_cutoff, younger_cutoff, root_i, repos,
                   repo_i, commit_info, cleanable, cleanable_objs,
                   stale_projects, counters, exc>>

\* Lines 522-524: "Delete n local projects?"; no exits.
NukeConfirmLocal ==
    /\ pc = "nuke_selected"
    /\ execute
    /\ \E answer \in {"yes", "no"} :
        /\ local_answer' = answer
        /\ pc' = IF answer = "yes" THEN "nuke_confirm_github" ELSE "nuke_exit"
    /\ UNCHANGED <<fs_vars, loc_vars, art_vars, first_run, execute,
                   github_given, github, selected, sel_i, github_answer,
                   trashed, gh_deleted, clock, scan_args, now_read,
                   older_cutoff, younger_cutoff, root_i, repos, repo_i,
                   commit_info, cleanable, cleanable_objs, stale_projects,
                   counters, exc>>

\* Lines 526-532 with line 532 (github = False) lost.
NukeConfirmGithubKeepsFlag ==
    /\ pc = "nuke_confirm_github"
    /\ IF github /\ \E i \in DOMAIN selected : HasRemote(selected[i])
       THEN \E answer \in {"yes", "no"} : github_answer' = answer
       ELSE UNCHANGED github_answer
    /\ sel_i' = 1
    /\ pc' = "nuke_delete"
    /\ UNCHANGED <<fs_vars, loc_vars, art_vars, first_run, execute,
                   github_given, github, selected, local_answer, trashed,
                   gh_deleted, clock, scan_args, now_read, older_cutoff,
                   younger_cutoff, root_i, repos, repo_i, commit_info,
                   cleanable, cleanable_objs, stale_projects, counters, exc>>

\* Lines 526-532: with --github and a selected project that has a remote,
\* "Also delete n repositories from GitHub?"; no clears github and goes on.
NukeConfirmGithub ==
    /\ pc = "nuke_confirm_github"
    /\ IF github /\ \E i \in DOMAIN selected : HasRemote(selected[i])
       THEN \E answer \in {"yes", "no"} :
            /\ github_answer' = answer
            /\ github' = IF answer = "yes" THEN github ELSE FALSE
       ELSE UNCHANGED <<github_answer, github>>
    /\ sel_i' = 1
    /\ pc' = "nuke_delete"
    /\ UNCHANGED <<fs_vars, loc_vars, art_vars, first_run, execute,
                   github_given, selected, local_answer, trashed, gh_deleted,
                   clock, scan_args, now_read, older_cutoff, younger_cutoff,
                   root_i, repos, repo_i, commit_info, cleanable,
                   cleanable_objs, stale_projects, counters, exc>>

\* Lines 542-570: one selected project: trash_directory(path, execute=True)
\* runs "trash", which removes the tree when it succeeds; then, with github
\* still set and a remote, "gh repo delete" is run, whose failures are
\* caught.
NukeDeleteProject ==
    /\ pc = "nuke_delete"
    /\ sel_i <= Len(selected)
    /\ LET project == selected[sel_i] IN
        /\ IF trash_directory_runs(TRUE)
           THEN /\ trashed' = Append(trashed, project.path)
                /\ \E ok \in BOOLEAN :
                    dirs' = IF ok
                            THEN {d \in dirs : ~IsPrefix(project.path, d)}
                            ELSE dirs
           ELSE UNCHANGED <<trashed, dirs>>
        /\ gh_deleted' =
            IF github /\ HasRemote(project)
            THEN Append(gh_deleted, project.github_remote)
            ELSE gh_deleted
    /\ sel_i' = sel_i + 1
    /\ UNCHANGED <<files, denied, order, stat_propagates, loc_vars, art_vars,
                   first_run, execute, github_given, github, selected,
                   local_answer, github_answer, clock, scan_args, pc,
                   now_read, older_cutoff, younger_cutoff, root_i, repos,
                   repo_i, commit_info, cleanable, cleanable_objs,
                   stale_projects, counters, exc>>

\* Lines 573-580: every selected project handled.
NukeDeleteDone ==
    /\ pc = "nuke_delete"
    /\ sel_i > Len(selected)
    /\ pc' = "nuke_done"
    /\ UNCHANGED <<fs_vars, loc_vars, art_vars, ext_vars, clock, scan_args,
                   now_read, older_cutoff, younger_cutoff, root_i, repos,
                   repo_i, commit_info, cleanable, cleanable_objs,
                   stale_projects, counters, exc>>

NukeNext ==
    \/ NukeComputeCutoffs
    \/ NukeNextRoot
    \/ NukeReposDone
    \/ NukeExamineRepo
    \/ NukeRootsDone
    \/ NukeSelect
    \/ NukeDryRunExit
    \/ NukeConfirmLocal
    \/ NukeConfirmGithub
    \/ NukeDeleteProject
    \/ NukeDeleteDone

SpecNuke == NukeInit /\ [][NukeNext]_vars

\* The selected projects handled so far by the deletion loop.
Handled == {i \in DOMAIN selected : i < sel_i}

\* C20: "gh repo delete" is run for a project only if the project was
\* selected and has a GitHub remote, --github and --execute were given, and
\* the user said yes to the local confirmation and then to the GitHub
\* confirmation; after a no to the GitHub confirmation every selected
\* project is still trashed and no GitHub deletion is run.
C20_GithubDeletionGated ==
    /\ \A k \in DOMAIN gh_deleted :
        /\ \E i \in Handled :
            /\ HasRemote(selected[i])
            /\ selected[i].github_remote = gh_deleted[k]
            /\ \E j \in DOMAIN stale_projects : stale_projects[j] = selected[i]
        /\ github_given
        /\ execute
        /\ local_answer = "yes"
        /\ github_answer = "yes"
    /\ github_answer # "unasked" => local_answer = "yes"
    /\ github_answer = "no" =>
        /\ gh_deleted = <<>>
        /\ pc \in {"nuke_delete", "nuke_done"}
        /\ trashed = [i \in 1..(sel_i - 1) |-> selected[i].path]
        /\ pc = "nuke_done" => Len(trashed) = Len(selected)

\* Two projects were deleted locally, one of them on GitHub as well.
C20_Witness ==
    /\ pc = "nuke_done"
    /\ Len(trashed) = 2
    /\ Len(gh_deleted) = 1

----------------------------------------------------------------------------
(* Claims about the scan. *)

\* C1: the scan runs to completion and returns a ScanResult whatever the
\* roots, the age bounds and the outcomes of git and du are: no exception
\* ends it.
C1_ScanNeverAborts == pc # "raised"

\* C9: a failure of git or du (non-zero exit, timeout, unparsable or empty
\* output, missing binary) is turned into None or 0 and never raised.
C9_ToolFailuresNeverRaised ==
    ~(pc = "raised"
      /\ exc.where \in {"get_last_commit_info", "get_directory_size"})

\* The age bounds of the scan, from its arguments and the instants its
\* calls of datetime.now() returned.
OlderOK(T) ==
    older_than_months = None
    \/ T < MonthsBefore(now_read[1], older_than_months)

YoungerOK(T) ==
    younger_than_months = None
    \/ T >= MonthsBefore(now_read[2], younger_than_months)

\* The scan holds the commit information of a repository and is about to
\* apply the age filters to it.
Examined == pc = "commit" /\ commit_info # NoCommitInfo

\* The step took the repository on to artifact discovery.
PassedOn ==
    pc' = "sizes" \/ filtered_no_cleanable' = filtered_no_cleanable + 1

C2_Inclusion ==
    LET T == commit_info.date IN
    /\ PassedOn <=> (OlderOK(T) /\ YoungerOK(T))
    /\ (older_than_months # None
        /\ T = MonthsBefore(now_read[1], older_than_months)) => ~PassedOn
    /\ ~OlderOK(T) =>
        /\ filtered_too_recent' = filtered_too_recent + 1
        /\ filtered_too_old' = filtered_too_old
    /\ (OlderOK(T) /\ YoungerOK(T)) =>
        /\ filtered_too_recent' = filtered_too_recent
        /\ filtered_too_old' = filtered_too_old

\* C2 as stated: a repository passes the age filter iff both bounds hold
\* (the older one strictly); one failing the older bound increments
\* filtered_too_recent, and one failing the younger bound increments
\* filtered_too_old.
C2_Original ==
    [][Examined =>
        /\ C2_Inclusion
        /\ ~YoungerOK(commit_info.date) =>
            filtered_too_old' = filtered_too_old + 1]_vars

\* C2 amended: as stated, but a repository increments filtered_too_old
\* only when it passes the older bound and fails the younger one; one that
\* fails both bounds increments filtered_too_recent alone.
C2_AgeFilter ==
    [][Examined =>
        /\ C2_Inclusion
        /\ (OlderOK(commit_info.date) /\ ~YoungerOK(commit_info.date)) =>
            /\ filtered_too_old' = filtered_too_old + 1
            /\ filtered_too_recent' = filtered_too_recent]_vars

\* A repository that failed both bounds has been counted as too recent
\* and not as too old.
C2_Witness ==
    /\ pc = "repos"
    /\ commit_info # NoCommitInfo
    /\ ~OlderOK(commit_info.date)
    /\ ~YoungerOK(commit_info.date)
    /\ total_repos = 1
    /\ filtered_too_recent = 1
    /\ filtered_too_old = 0

\* C7: at every point of the scan every project of stale_projects has at
\* least one cleanable directory and a last commit within the age bounds of
\* the scan.
C7_ProjectsPassFilters ==
    \A i \in DOMAIN stale_projects :
        /\ Len(stale_projects[i].cleanable_dirs) >= 1
        /\ OlderOK(stale_projects[i].last_commit_date)
        /\ YoungerOK(stale_projects[i].last_commit_date)

\* A project was appended by a scan that had both age bounds set.
C7_Witness ==
    /\ Len(stale_projects) >= 1
    /\ older_than_months # None
    /\ younger_than_months # None

\* The artifact directories of a repository: a directory with a recognized
\* name in the repository or in one of its non-hidden subdirectories.
Recognized == {cleanable_dirs[k] : k \in DOMAIN cleanable_dirs}

ArtifactsOf(repo) ==
    {d \in dirs :
        /\ BaseName(d) \in Recognized
        /\ \/ Parent(d) = repo
           \/ /\ Parent(Parent(d)) = repo
              /\ Len(d) = Len(repo) + 2
              /\ ~StartsWithDot(BaseName(Parent(d)))}

\* The scan is about to filter a repository that has commits and no
\* artifact directory.
ExaminedWithoutArtifacts == Examined /\ ArtifactsOf(repos[repo_i]) = {}

\* C8 as stated: a repository with commits and no matching artifact
\* directory is not appended to stale_projects and increments
\* filtered_no_cleanable by exactly one, whatever the age bounds are.
C8_Original ==
    [][ExaminedWithoutArtifacts =>
        /\ stale_projects' = stale_projects
        /\ filtered_no_cleanable' = filtered_no_cleanable + 1]_vars

\* C8 amended: such a repository is never in stale_projects; it increments
\* filtered_no_cleanable by exactly one when it passes the age bounds and
\* leaves it unchanged when an age bound excludes it.
C8_NoArtifactsNoProject ==
    [][/\ \A i \in DOMAIN stale_projects' :
            ArtifactsOf(stale_projects'[i].path) # {}
       /\ ExaminedWithoutArtifacts =>
            /\ stale_projects' = stale_projects
            /\ IF OlderOK(commit_info.date) /\ YoungerOK(commit_info.date)
               THEN filtered_no_cleanable' = filtered_no_cleanable + 1
               ELSE filtered_no_cleanable' = filtered_no_cleanable]_vars

\* A repository with commits and no artifact directory has passed the age
\* bounds of a scan that set one, and was counted.
C8_Witness ==
    /\ pc = "repos"
    /\ repo_i = 2
    /\ total_repos = 1
    /\ commit_info # NoCommitInfo
    /\ ArtifactsOf(repos[1]) = {}
    /\ older_than_months # None
    /\ filtered_no_cleanable = 1
    /\ stale_projects = <<>>

\* C12: across one scan the project paths of the result (and the repository
\* paths examined) are pairwise non-nested: no path equals or is an ancestor
\* of another, whatever the roots are.
C12_ProjectsPairwiseNonNested ==
    \A i, j \in DOMAIN stale_projects :
        i # j => ~IsPrefix(stale_projects[i].path, stale_projects[j].path)

\* The scan holds a repository for which get_last_commit_info returned None.
ExaminedWithoutCommits == pc = "commit" /\ commit_info = NoCommitInfo

\* C14: a repository for which get_last_commit_info returned None is not
\* added to stale_projects, increments filtered_no_commits by exactly one and
\* is passed neither to artifact discovery nor to size measurement: the scan
\* goes straight on to the next repository.
C14_NoCommitsSkipped ==
    [][ExaminedWithoutCommits =>
        /\ stale_projects' = stale_projects
        /\ filtered_no_commits' = filtered_no_commits + 1
        /\ pc' = "repos"
        /\ repo_i' = repo_i + 1
        /\ UNCHANGED <<cleanable, cleanable_objs, filtered_too_recent,
                       filtered_too_old, filtered_no_cleanable>>]_vars

\* A repository whose git call failed or printed nothing was counted, in a
\* tree where it has an artifact directory.
C14_Witness ==
    /\ pc = "repos"
    /\ repo_i = 2
    /\ commit_info = NoCommitInfo
    /\ ArtifactsOf(repos[1]) # {}
    /\ filtered_no_commits = 1
    /\ total_repos = 1
    /\ stale_projects = <<>>

FilterSum ==
    Len(stale_projects) + filtered_too_recent + filtered_too_old
    + filtered_no_commits + filtered_no_cleanable

\* C18: after every repository iteration total_repos equals
\* len(stale_projects) plus the four filter counters, and the iteration that
\* ends changed exactly one of the five, by one.
C18_CountersPartition ==
    [][/\ pc' \in {"repos", "roots", "return", "done"} =>
            total_repos' = Len(stale_projects') + filtered_too_recent'
                           + filtered_too_old' + filtered_no_commits'
                           + filtered_no_cleanable'
       /\ (pc \in {"commit", "sizes"} /\ pc' = "repos") =>
            Cardinality({k \in 1..5 :
                <<Len(stale_projects'), filtered_too_recent',
                  filtered_too_old', filtered_no_commits',
                  filtered_no_cleanable'>>[k]
                = <<Len(stale_projects), filtered_too_recent,
                    filtered_too_old, filtered_no_commits,
                    filtered_no_cleanable>>[k] + 1}) = 1
            /\ FilterSum' = FilterSum + 1]_vars

\* Two repositories were examined, one of them violating both age bounds.
C18_Witness ==
    /\ pc = "repos"
    /\ total_repos = 2
    /\ FilterSum = 2
    /\ filtered_too_recent >= 1
    /\ commit_info # NoCommitInfo
    /\ ~OlderOK(commit_info.date)
    /\ ~YoungerOK(commit_info.date)

\* The loop of line 55 is at a root that does not exist.
AtMissingRoot ==
    /\ pc = "roots"
    /\ root_i <= Len(roots)
    /\ ~PathExists(roots[root_i])

\* C15: a root that does not exist contributes no repository and changes no
\* counter, and the loop goes on with the root after it: the return statement
\* is reached only when every root had its turn.
C15_MissingRootSkipped ==
    [][/\ AtMissingRoot =>
            /\ root_i' = root_i + 1
            /\ pc' = "roots"
            /\ UNCHANGED <<stale_projects, counters>>
       /\ pc' = "return" => root_i' = Len(roots) + 1]_vars

\* A repository of the second root is examined after the first root was
\* found missing.
C15_Witness ==
    /\ Len(roots) = 2
    /\ ~PathExists(roots[1])
    /\ root_i = 2
    /\ pc = "commit"
    /\ total_repos = 1

\* The scenario of the spec: root /work (the root of the model's tree) holds
\* the repository a with a venv directory, older_than_months is set, git
\* reports a commit older than the bound and du reports 50 MB.
ScenarioInput ==
    /\ dirs = {<<"a">>, <<"a", GitName>>, <<"a", "venv">>}
    /\ files = {}
    /\ roots = << <<>> >>
    /\ older_than_months # None
    /\ younger_than_months = None
    /\ cleanable_dirs = <<"venv">>

ScenarioTools ==
    /\ commit_info # NoCommitInfo
    /\ OlderOK(commit_info.date)
    /\ cleanable_objs =
        <<[path |-> <<"a", "venv">>, dir_type |-> "venv",
           size_bytes |-> 50 * 1024 * 1024]>>

ScenarioLocals ==
    /\ Len(stale_projects) = 1
    /\ stale_projects[1].path = <<"a">>
    /\ stale_projects[1].name = "a"
    /\ stale_projects[1].cleanable_dirs = cleanable_objs
    /\ total_repos = 1
    /\ filtered_too_recent = 0

\* C13: in the scenario the scan does not take a/.git for a repository and
\* yields a result with exactly the project "a", its one artifact "venv" of
\* 50*1024*1024 bytes, total_repos_scanned = 1 and filtered_too_recent = 0.
C13_ScenarioResult ==
    (ScenarioInput /\ ScenarioTools /\ pc \in {"done", "raised"}) =>
        /\ pc = "done"
        /\ ScenarioLocals

\* The two lists of projects agree on everything git and du reported: the
\* same repositories in the same order, the same commits, and for each the
\* same set of artifacts with the same sizes.
SameUpToArtifactOrder(P, Q) ==
    /\ Len(P) = Len(Q)
    /\ \A i \in DOMAIN P :
        /\ P[i].path = Q[i].path
        /\ P[i].last_commit_date = Q[i].last_commit_date
        /\ P[i].last_commit_message = Q[i].last_commit_message
        /\ {P[i].cleanable_dirs[k] : k \in DOMAIN P[i].cleanable_dirs}
           = {Q[i].cleanable_dirs[k] : k \in DOMAIN Q[i].cleanable_dirs}

SecondRunBuiltResult == first_run.ran /\ BuiltResult

\* C16: a second scan with the same arguments on the unmodified tree, in
\* which git and du answer as they did in the first, computes the same
\* projects in the same order, each with the same artifact list in the same
\* order and the same sizes, and the same counters.
C16_SecondRunIdentical ==
    (/\ SecondRunBuiltResult
     /\ counters = first_run.counters
     /\ SameUpToArtifactOrder(stale_projects, first_run.stale_projects))
    => stale_projects = first_run.stale_projects

====
